---- MODULE Spec2Model ----
(***************************************************************************)
(* FROST threshold Schnorr signatures (okx/frost): the coordinator core of *)
(* frost-core/src/frost.rs instantiated with the ecGFp5 / Poseidon-256     *)
(* ciphersuite of frost-ecgfp5/src/lib.rs.                                 *)
(*                                                                         *)
(* The scalar field is a prime field of order Q.  The group has prime      *)
(* order Q and cofactor one, so every element is x.B for exactly one       *)
(* scalar x: an element is represented by that scalar, the generator B by  *)
(* one and the identity by zero.  Byte strings are sequences of naturals.  *)
(* A Rust Result is a record with kind "Ok" or "Err", and a panic (an      *)
(* unwrap of None or of Err, an index of a missing HashMap key) is a       *)
(* record with kind "Panic": the call does not return.                     *)
(***************************************************************************)
EXTENDS Integers, Sequences, FiniteSets, TLC

(***************************************************************************)
(* Bounds of the model                                                     *)
(***************************************************************************)
\* participant indices (u16 in the code) range over 0..MaxId
MaxId == 4
\* the dealer gives key packages to the participants 1..MaxSigners
MaxSigners == 3
\* the dealer's coefficients, the nonces and submitted shares range over 0..MaxVal
MaxVal == 1
\* the message is one byte of 0..MaxByte
MaxByte == 0
\* the length of the list of commitments handed to SigningPackage::new
MaxCommitments == 2
\* the length of the list of signature shares handed to aggregate
MaxShares == 2
\* the RandomState of a HashMap is one of 0..MaxSeed
MaxSeed == 0
\* a byte of a received buffer is one of 0..MaxWire
MaxWire == 15

(***************************************************************************)
(* Field (EcGFp5ScalarField)                                               *)
(***************************************************************************)
Q == 7

Scalar == 0 .. (Q - 1)

zero == 0

one == 1

FAdd(a, b) == (a + b) % Q

FSub(a, b) == (a + Q - b) % Q

FMul(a, b) == (a * b) % Q

RECURSIVE FPow(_, _)
FPow(a, n) == IF n = 0 THEN one ELSE FMul(a, FPow(a, n - 1))

Ok(v) == [kind |-> "Ok", val |-> v]

Err(e) == [kind |-> "Err", err |-> e]

Panic(p) == [kind |-> "Panic", at |-> p]

(***************************************************************************)
(* Errors: the &'static str values of frost.rs, under the names of the     *)
(* error taxonomy; MismatchedShares and UnknownIdentifier are values of    *)
(* the taxonomy that no line of frost.rs returns                           *)
(***************************************************************************)
InvalidIdentifier == "Invalid parameters"

DuplicateIdentifier == "Duplicate shares provided"

IdentityCommitment == "Commitment equals the identity."

InvalidSignatureShare == "Invalid signature share"

MismatchedShares == "Mismatched shares"

UnknownIdentifier == "Unknown identifier"

MissingCommitment == "Missing commitment"

InvalidGroupCommitment == "Invalid group commitment"

\* scalar.try_inverse().ok_or(FieldError::InvalidZeroScalar)
invert(scalar) ==
    IF scalar = zero THEN Err("InvalidZeroScalar") ELSE Ok(FPow(scalar, Q - 2))

\* scalar.encode(): the little-endian bytes of the canonical representative
FieldSerialize(scalar) == <<scalar>>

(***************************************************************************)
(* Group (EcGFp5Group)                                                     *)
(***************************************************************************)
Element == 0 .. (Q - 1)

identity == 0

generator == 1

GAdd(p, q) == (p + q) % Q

\* element * scalar
GMul(p, k) == (p * k) % Q

\* element.to_le_bytes(): the encoding of the point; the neutral point has
\* the all-zero encoding, and the odd byte values encode no point
GroupSerialize(element) == <<2 * element>>

\* deserialize without its is_neutral() test
GroupDeserializeNoCheck(buf) ==
    IF buf[1] % 2 = 0 /\ buf[1] \div 2 < Q
    THEN Ok(buf[1] \div 2)
    ELSE Err("MalformedElement")

\* EcGFp5Group::deserialize
GroupDeserialize(buf) ==
    IF buf[1] % 2 = 0 /\ buf[1] \div 2 < Q
    THEN IF buf[1] \div 2 = identity
         THEN Err("InvalidIdentityElement")
         ELSE Ok(buf[1] \div 2)
    ELSE Err("MalformedElement")

(***************************************************************************)
(* Hashes (EcGFp5Poseidon256)                                              *)
(***************************************************************************)
\* the bytes of CONTEXT_STRING followed by the tag
ContextTag(tag) ==
    CASE tag = "rho" -> <<9, 1>>
      [] tag = "chal" -> <<9, 2>>
      [] tag = "nonce" -> <<9, 3>>
      [] tag = "msg" -> <<9, 4>>
      [] tag = "com" -> <<9, 5>>

\* the sponge: absorbs the bytes one by one
RECURSIVE Absorb(_, _)
Absorb(h, m) ==
    IF m = <<>> THEN h
    ELSE Absorb((3 * h + Head(m) + 1) % 251, Tail(m))

hash_to_scalar(domain, m) == Absorb(0, domain \o m) % Q

hash_to_array(inputs) == <<Absorb(0, inputs)>>

H1(m) == hash_to_scalar(ContextTag("rho"), m)

H2(m) == hash_to_scalar(ContextTag("chal"), m)

H3(m) == hash_to_scalar(ContextTag("nonce"), m)

H4(m) == hash_to_array(ContextTag("msg") \o m)

H5(m) == hash_to_array(ContextTag("com") \o m)

(***************************************************************************)
(* Identifier, keys, round 1 and round 2 (modules of frost-core that the   *)
(* coordinator core calls)                                                 *)
(***************************************************************************)
\* Identifier::try_from(u16): fails for zero
IdentifierTryFrom(n) ==
    IF n = 0 THEN Err(InvalidIdentifier) ELSE Ok(n % Q)

\* f(x) by Horner evaluation, coefficients <<a_0, .., a_{t-1}>>
RECURSIVE evaluate_polynomial(_, _)
evaluate_polynomial(coefficients, x) ==
    IF coefficients = <<>> THEN zero
    ELSE FAdd(Head(coefficients),
              FMul(x, evaluate_polynomial(Tail(coefficients), x)))

\* the signing share s_i = f(i) of participant i
SigningShare(coefficients, i) == evaluate_polynomial(coefficients, i % Q)

\* PublicKeyPackage{Y = A_0, {Y_i}} of the dealer's key generation
PublicKeyPackage(coefficients, identifiers) ==
    [group_public |-> GMul(generator, coefficients[1]),
     signer_pubkeys |->
        [i \in identifiers |-> GMul(generator, SigningShare(coefficients, i))]]

\* SigningCommitments{index, hiding = d.B, binding = e.B}
SigningCommitments(i, d, e) ==
    [index |-> i, hiding |-> GMul(generator, d), binding |-> GMul(generator, e)]

\* serialize(i) || serialize(D_i) || serialize(E_i) for every commitment
RECURSIVE encode_group_commitments(_)
encode_group_commitments(cs) ==
    IF cs = <<>> THEN <<>>
    ELSE FieldSerialize(Head(cs).index % Q) \o GroupSerialize(Head(cs).hiding)
         \o GroupSerialize(Head(cs).binding)
         \o encode_group_commitments(Tail(cs))

\* D_i + rho . E_i
to_group_commitment_share(commitment, rho) ==
    GAdd(commitment.hiding, GMul(commitment.binding, rho))

\* c = H2(serialize(R) || serialize(Y) || M)
challenge(R, Y, msg) == H2(GroupSerialize(R) \o GroupSerialize(Y) \o msg)

\* SignatureShare::verify: z_i.B == R_i + (c . lambda_i) . Y_i
verify(z_share, R_share, signer_pubkey, lambda_i, c) ==
    IF GMul(generator, z_share) = GAdd(R_share, GMul(signer_pubkey, FMul(c, lambda_i)))
    THEN Ok(TRUE)
    ELSE Err(InvalidSignatureShare)

(***************************************************************************)
(* SigningPackage                                                          *)
(***************************************************************************)
\* the place of x in a list sorted by index: after every key <= its own
RECURSIVE InsertByKey(_, _)
InsertByKey(sorted, x) ==
    IF sorted = <<>> THEN <<x>>
    ELSE IF Head(sorted).index <= x.index
         THEN <<Head(sorted)>> \o InsertByKey(Tail(sorted), x)
         ELSE <<x>> \o sorted

\* Vec::sort_by_key(|a| a.index): a stable sort
RECURSIVE sort_by_key(_)
sort_by_key(list) ==
    IF list = <<>> THEN <<>>
    ELSE InsertByKey(sort_by_key(SubSeq(list, 1, Len(list) - 1)), list[Len(list)])

\* a collect in which the first entry of a key stays
CollectFirst(list) ==
    [i \in {list[k].index : k \in 1 .. Len(list)} |->
        list[CHOOSE k \in 1 .. Len(list) :
                /\ list[k].index = i
                /\ \A j \in 1 .. (k - 1) : list[j].index # i]]

\* .into_iter().map(|s| (s.index, s)).collect(): a later entry of a key
\* replaces the earlier one
Collect(list) ==
    [i \in {list[k].index : k \in 1 .. Len(list)} |->
        list[CHOOSE k \in 1 .. Len(list) :
                /\ list[k].index = i
                /\ \A j \in (k + 1) .. Len(list) : list[j].index # i]]

\* SigningPackage::new; seed is the RandomState of the new HashMap
SigningPackageNew(signing_commitments, message, seed) ==
    [signing_commitments |-> Collect(sort_by_key(signing_commitments)),
     message |-> message,
     seed |-> seed]

\* the keys of a set in ascending order
RECURSIVE Ascending(_)
Ascending(S) ==
    IF S = {} THEN <<>>
    ELSE LET m == CHOOSE x \in S : \A y \in S : x <= y
         IN <<m>> \o Ascending(S \ {m})

\* HashMap::values(): every value once, in an order that depends on the
\* map's RandomState and not on the keys' order
Values(package) ==
    LET asc == Ascending(DOMAIN package.signing_commitments)
        n == Len(asc)
    IN [k \in 1 .. n |->
           package.signing_commitments[
               IF package.seed % 2 = 0
               THEN asc[((n - k + package.seed \div 2) % n) + 1]
               ELSE asc[((k - 1 + package.seed \div 2) % n) + 1]]]

\* signing_commitments() without its sort_by_key
signing_commitments_unsorted(package) == Values(package)

\* SigningPackage::signing_commitments: the values, sorted by index
signing_commitments(package) == sort_by_key(Values(package))

\* SigningPackage::rho_preimage
rho_preimage(package) ==
    encode_group_commitments(signing_commitments(package))
        \o FieldSerialize(H3(package.message))

\* Rho::from(&SigningPackage)
RhoFrom(package) == H1(rho_preimage(package))

\* the loop with && in the place of || in its identity check
RECURSIVE GroupCommitmentLoopBoth(_, _, _)
GroupCommitmentLoopBoth(cs, rho, accumulator) ==
    IF cs = <<>> THEN Ok(accumulator)
    ELSE IF identity = Head(cs).binding /\ identity = Head(cs).hiding
         THEN Err(IdentityCommitment)
         ELSE GroupCommitmentLoopBoth(Tail(cs), rho,
                  GAdd(accumulator, GAdd(Head(cs).hiding, GMul(Head(cs).binding, rho))))

\* the loop of GroupCommitment::try_from
RECURSIVE GroupCommitmentLoop(_, _, _)
GroupCommitmentLoop(cs, rho, accumulator) ==
    IF cs = <<>> THEN Ok(accumulator)
    ELSE IF identity = Head(cs).binding \/ identity = Head(cs).hiding
         THEN Err(IdentityCommitment)
         ELSE GroupCommitmentLoop(Tail(cs), rho,
                  GAdd(accumulator, GAdd(Head(cs).hiding, GMul(Head(cs).binding, rho))))

\* GroupCommitment::try_from(&SigningPackage)
GroupCommitmentTryFrom(package) ==
    GroupCommitmentLoop(signing_commitments(package), RhoFrom(package), identity)

(***************************************************************************)
(* Lagrange coefficients                                                   *)
(***************************************************************************)
\* the .any(..) over the commitments: the closure unwraps
\* Identifier::try_from(commitment.index) and compares the scalar with zero
RECURSIVE AnyZeroIdentifier(_)
AnyZeroIdentifier(cs) ==
    IF cs = <<>> THEN Ok(FALSE)
    ELSE LET id == IdentifierTryFrom(Head(cs).index)
         IN IF id.kind = "Err"
            THEN Panic("Identifier::try_from(commitment.index).unwrap()")
            ELSE IF id.val = zero THEN Ok(TRUE)
                 ELSE AnyZeroIdentifier(Tail(cs))

\* the loop with the denominator's difference the other way round
RECURSIVE LagrangeLoopReversed(_, _, _)
LagrangeLoopReversed(cs, signer_id, acc) ==
    IF cs = <<>> THEN acc
    ELSE IF Head(cs).index = signer_id
         THEN LagrangeLoopReversed(Tail(cs), signer_id, acc)
         ELSE LET commitment_id_scalar == IdentifierTryFrom(Head(cs).index).val
                  signer_id_scalar == IdentifierTryFrom(signer_id).val
              IN LagrangeLoopReversed(Tail(cs), signer_id,
                     <<FMul(acc[1], commitment_id_scalar),
                       FMul(acc[2], FSub(signer_id_scalar, commitment_id_scalar))>>)

\* the loop without the continue that skips the signer's own commitment
RECURSIVE LagrangeLoopNoSkip(_, _, _)
LagrangeLoopNoSkip(cs, signer_id, acc) ==
    IF cs = <<>> THEN acc
    ELSE LET commitment_id_scalar == IdentifierTryFrom(Head(cs).index).val
             signer_id_scalar == IdentifierTryFrom(signer_id).val
         IN LagrangeLoopNoSkip(Tail(cs), signer_id,
                <<FMul(acc[1], commitment_id_scalar),
                  FMul(acc[2], FSub(commitment_id_scalar, signer_id_scalar))>>)

\* the loop over the commitments: acc is <<num, den>>
RECURSIVE LagrangeLoop(_, _, _)
LagrangeLoop(cs, signer_id, acc) ==
    IF cs = <<>> THEN acc
    ELSE IF Head(cs).index = signer_id
         THEN LagrangeLoop(Tail(cs), signer_id, acc)
         ELSE LET commitment_id_scalar == IdentifierTryFrom(Head(cs).index).val
                  signer_id_scalar == IdentifierTryFrom(signer_id).val
              IN LagrangeLoop(Tail(cs), signer_id,
                     <<FMul(acc[1], commitment_id_scalar),
                       FMul(acc[2], FSub(commitment_id_scalar, signer_id_scalar))>>)

derive_lagrange_coeff(signer_id, signing_package) ==
    LET signer_id_scalar == IdentifierTryFrom(signer_id)
    IN IF signer_id_scalar.kind = "Err"
       THEN Panic("Identifier::try_from(signer_id).unwrap()")
       ELSE IF signer_id_scalar.val = zero
       THEN Err(InvalidIdentifier)
       ELSE LET any == AnyZeroIdentifier(signing_commitments(signing_package))
            IN IF any.kind = "Panic" THEN any
               ELSE IF any.val THEN Err(InvalidIdentifier)
               ELSE LET nd == LagrangeLoop(signing_commitments(signing_package),
                                           signer_id, <<one, one>>)
                    IN IF nd[2] = zero
                       THEN Err(DuplicateIdentifier)
                       ELSE Ok(FMul(nd[1], invert(nd[2]).val))

(***************************************************************************)
(* Round 2: one participant's signature share                              *)
(***************************************************************************)
\* round2::sign(signing_package, (d, e), key package of signer i)
sign(signing_package, d, e, i, s_i, group_public) ==
    IF i \notin DOMAIN signing_package.signing_commitments
    THEN Err(MissingCommitment)
    ELSE LET rho == RhoFrom(signing_package)
             R == GroupCommitmentTryFrom(signing_package)
         IN IF R.kind = "Err" THEN R
            ELSE IF R.val = identity THEN Err(InvalidGroupCommitment)
            ELSE LET c == challenge(R.val, group_public, signing_package.message)
                     lambda_i == derive_lagrange_coeff(i, signing_package)
                 IN IF lambda_i.kind # "Ok" THEN lambda_i
                    ELSE Ok([index |-> i,
                             z_share |-> FAdd(FAdd(d, FMul(rho, e)),
                                              FMul(FMul(c, lambda_i.val), s_i))])

(***************************************************************************)
(* Aggregation                                                             *)
(***************************************************************************)
\* the loop that verifies the signature shares, from share k on
RECURSIVE VerifyShares(_, _, _, _, _, _)
VerifyShares(signing_package, signature_shares, pubkeys, rho, c, k) ==
    IF k > Len(signature_shares) THEN Ok(TRUE)
    ELSE LET signature_share == signature_shares[k]
         IN IF signature_share.index \notin DOMAIN pubkeys.signer_pubkeys
            THEN Panic("pubkeys.signer_pubkeys.get(&signature_share.index).unwrap()")
            ELSE LET signer_pubkey == pubkeys.signer_pubkeys[signature_share.index]
                     lambda_i == derive_lagrange_coeff(signature_share.index, signing_package)
                 IN IF lambda_i.kind # "Ok" THEN lambda_i
                    ELSE IF signature_share.index
                               \notin DOMAIN signing_package.signing_commitments
                    THEN Panic("self.signing_commitments[index]")
                    ELSE LET R_share == to_group_commitment_share(
                                 signing_package.signing_commitments[signature_share.index],
                                 rho)
                             v == verify(signature_share.z_share, R_share,
                                         signer_pubkey, lambda_i.val, c)
                         IN IF v.kind # "Ok" THEN v
                            ELSE VerifyShares(signing_package, signature_shares,
                                              pubkeys, rho, c, k + 1)

\* z = the sum of the shares' z_share
RECURSIVE SumShares(_)
SumShares(signature_shares) ==
    IF signature_shares = <<>> THEN zero
    ELSE FAdd(SumShares(SubSeq(signature_shares, 1, Len(signature_shares) - 1)),
              signature_shares[Len(signature_shares)].z_share)

aggregate(signing_package, signature_shares, pubkeys) ==
    LET rho == RhoFrom(signing_package)
        group_commitment == GroupCommitmentTryFrom(signing_package)
    IN IF group_commitment.kind = "Err" THEN group_commitment
       ELSE LET c == challenge(group_commitment.val, pubkeys.group_public,
                               signing_package.message)
                checked == VerifyShares(signing_package, signature_shares,
                                        pubkeys, rho, c, 1)
            IN IF checked.kind # "Ok" THEN checked
               ELSE Ok([R |-> group_commitment.val, z |-> SumShares(signature_shares)])

(***************************************************************************)
(* State                                                                   *)
(***************************************************************************)
VARIABLES
    coefficients,   \* the dealer's polynomial f, <<a_0, .., a_{t-1}>>
    pubkeys,        \* the PublicKeyPackage the dealer gave the coordinator
    message,        \* the message of the session
    commitments,    \* the Vec of SigningCommitments collected in round one,
                    \* and, once sealed, the Vec that SigningPackage::new took
    package,        \* the SigningPackage, or None
    shares,         \* the signature shares collected in round two
    signature,      \* what aggregate returned, or None
    coeff,          \* the last call of derive_lagrange_coeff, or None
    transcript,     \* the last binding factor and group commitment, or None
    encoding,       \* the last buffer on the wire and the element it was
                    \* serialized from (None for a buffer from elsewhere)
    decoded         \* the last call of Group::deserialize, or None

vars == <<coefficients, pubkeys, message, commitments, package, shares,
          signature, coeff, transcript, encoding, decoded>>

None == [kind |-> "None"]

min_signers == 2

Ids == 0 .. MaxId

Vals == 0 .. MaxVal

Messages == {<<b>> : b \in 0 .. MaxByte}

Polynomials == [1 .. min_signers -> Vals]

Init ==
    /\ coefficients \in Polynomials
    /\ pubkeys = PublicKeyPackage(coefficients, 1 .. MaxSigners)
    /\ message \in Messages
    /\ commitments = <<>>
    /\ package = None
    /\ shares = <<>>
    /\ signature = None
    /\ coeff = None
    /\ transcript = None
    /\ encoding = None
    /\ decoded = None

\* round1::commit of participant i with nonces (d, e): the coordinator
\* collects the published commitment
Commit(i, d, e) ==
    /\ package = None
    /\ Len(commitments) < MaxCommitments
    /\ commitments' = Append(commitments, SigningCommitments(i, d, e))
    /\ UNCHANGED <<coefficients, pubkeys, message, package, shares, signature,
                   coeff, transcript>>
    /\ UNCHANGED <<encoding, decoded>>

\* SigningPackage::new(commitments, message)
Seal(seed) ==
    /\ package = None
    /\ package' = SigningPackageNew(commitments, message, seed)
    /\ UNCHANGED <<coefficients, pubkeys, message, commitments, shares,
                   signature, coeff, transcript>>
    /\ UNCHANGED <<encoding, decoded>>

\* round2::sign of participant i, who holds the nonces of its commitment
\* and its key package; the coordinator collects the share
Sign(i) ==
    /\ package # None
    /\ signature = None
    /\ Len(shares) < MaxShares
    /\ i \in DOMAIN pubkeys.signer_pubkeys
    /\ i \in DOMAIN package.signing_commitments
    /\ \E d, e \in Scalar :
          /\ GMul(generator, d) = package.signing_commitments[i].hiding
          /\ GMul(generator, e) = package.signing_commitments[i].binding
          /\ LET r == sign(package, d, e, i, SigningShare(coefficients, i),
                           pubkeys.group_public)
             IN /\ r.kind = "Ok"
                /\ shares' = Append(shares, r.val)
    /\ UNCHANGED <<coefficients, pubkeys, message, commitments, package,
                   signature, coeff, transcript>>
    /\ UNCHANGED <<encoding, decoded>>

\* a share that was not made by round2::sign reaches the coordinator
Submit(i, z) ==
    /\ package # None
    /\ signature = None
    /\ Len(shares) < MaxShares
    /\ shares' = Append(shares, [index |-> i, z_share |-> z])
    /\ UNCHANGED <<coefficients, pubkeys, message, commitments, package,
                   signature, coeff, transcript>>
    /\ UNCHANGED <<encoding, decoded>>

\* aggregate(&package, &shares, &pubkeys)
Aggregate ==
    /\ package # None
    /\ signature = None
    /\ signature' = aggregate(package, shares, pubkeys)
    /\ UNCHANGED <<coefficients, pubkeys, message, commitments, package, shares,
                   coeff, transcript>>
    /\ UNCHANGED <<encoding, decoded>>

\* derive_lagrange_coeff(signer_id, &package)
Derive(signer_id) ==
    /\ package # None
    /\ coeff = None
    /\ transcript = None
    /\ encoding = None
    /\ decoded = None
    /\ coeff' = [signer_id |-> signer_id,
                 result |-> derive_lagrange_coeff(signer_id, package)]
    /\ UNCHANGED <<coefficients, pubkeys, message, commitments, package, shares,
                   signature, transcript>>
    /\ UNCHANGED <<encoding, decoded>>

\* the binding factor and the group commitment of the package, as the
\* coordinator and every participant compute them
Bind ==
    /\ package # None
    /\ coeff = None
    /\ transcript = None
    /\ encoding = None
    /\ decoded = None
    /\ transcript' = [preimage |-> rho_preimage(package),
                      rho |-> RhoFrom(package),
                      group_commitment |-> GroupCommitmentTryFrom(package)]
    /\ UNCHANGED <<coefficients, pubkeys, message, commitments, package, shares,
                   signature, coeff>>
    /\ UNCHANGED <<encoding, decoded>>

Next ==
    \/ \E i \in Ids, d, e \in Vals : Commit(i, d, e)
    \/ \E seed \in 0 .. MaxSeed : Seal(seed)
    \/ \E i \in Ids : Sign(i)
    \/ \E i \in Ids, z \in Vals : Submit(i, z)
    \/ Aggregate

Spec == Init /\ [][Next]_vars

(***************************************************************************)
(* The signing package alone: its construction, its transcript and the     *)
(* Lagrange coefficients over its signer set                               *)
(***************************************************************************)
InitPackage ==
    /\ coefficients = [k \in 1 .. min_signers |-> one]
    /\ pubkeys = PublicKeyPackage(coefficients, 1 .. MaxSigners)
    /\ message \in Messages
    /\ commitments = <<>>
    /\ package = None
    /\ shares = <<>>
    /\ signature = None
    /\ coeff = None
    /\ transcript = None
    /\ encoding = None
    /\ decoded = None

\* the binding nonce is one throughout: the commitments of one participant
\* differ in D_i
NextPackage ==
    \/ \E i \in Ids, d \in Vals : Commit(i, d, one)
    \/ \E seed \in 0 .. MaxSeed : Seal(seed)
    \/ \E i \in Ids : Derive(i)
    \/ Bind

SpecPackage == InitPackage /\ [][NextPackage]_vars

(***************************************************************************)
(* The encoding of group elements alone                                    *)
(***************************************************************************)
\* the buffers a peer may send: any bytes
Buffers == {<<b>> : b \in 0 .. MaxWire}

\* Group::serialize(&element)
Serialize(element) ==
    /\ encoding' = [from |-> Ok(element), buf |-> GroupSerialize(element)]
    /\ UNCHANGED <<coefficients, pubkeys, message, commitments, package, shares,
                   signature, coeff, transcript, decoded>>

\* a buffer that no serialize of this process produced
Receive(buf) ==
    /\ encoding' = [from |-> None, buf |-> buf]
    /\ UNCHANGED <<coefficients, pubkeys, message, commitments, package, shares,
                   signature, coeff, transcript, decoded>>

\* Group::deserialize(&buf)
Deserialize ==
    /\ encoding # None
    /\ decoded' = [from |-> encoding.from, buf |-> encoding.buf,
                   result |-> GroupDeserialize(encoding.buf)]
    /\ UNCHANGED <<coefficients, pubkeys, message, commitments, package, shares,
                   signature, coeff, transcript, encoding>>

NextCodec ==
    \/ \E element \in Element : Serialize(element)
    \/ \E buf \in Buffers : Receive(buf)
    \/ Deserialize

SpecCodec == InitPackage /\ [][NextCodec]_vars

(***************************************************************************)
(* The Lagrange coefficients alone: only the identifiers of the package    *)
(* matter, so both nonces of every commitment are one                      *)
(***************************************************************************)
NextLagrange ==
    \/ \E i \in Ids : Commit(i, one, one)
    \/ \E seed \in 0 .. MaxSeed : Seal(seed)
    \/ \E i \in Ids : Derive(i)

SpecLagrange == InitPackage /\ [][NextLagrange]_vars

(***************************************************************************)
(* What the claims speak of                                                *)
(***************************************************************************)
PackageIds == DOMAIN package.signing_commitments

ShareIds == {shares[k].index : k \in 1 .. Len(shares)}

KeyIds == DOMAIN pubkeys.signer_pubkeys

Sealed == package # None

Aggregated == signature # None

\* a / b in the field, b nonzero
FDiv(a, b) == CHOOSE x \in Scalar : FMul(x, b) = a

\* the product over j in S of j / (j - i)
RECURSIVE LagrangeProduct(_, _)
LagrangeProduct(i, S) ==
    IF S = {} THEN one
    ELSE LET j == CHOOSE x \in S : TRUE
         IN FMul(FDiv(j % Q, FSub(j % Q, i % Q)), LagrangeProduct(i, S \ {j}))

\* lambda_i over the signer set S
Lambda(i, S) == LagrangeProduct(i, S \ {i})

\* the scalar d with d.B = P
DLog(P) == CHOOSE d \in Scalar : GMul(generator, d) = P

\* the sum over i in S of D_i + rho.E_i
RECURSIVE SumCommitmentShares(_, _)
SumCommitmentShares(S, rho) ==
    IF S = {} THEN identity
    ELSE LET i == CHOOSE x \in S : TRUE
         IN GAdd(GAdd(package.signing_commitments[i].hiding,
                      GMul(package.signing_commitments[i].binding, rho)),
                 SumCommitmentShares(S \ {i}, rho))

\* R and c of the sealed package
SessionR == SumCommitmentShares(PackageIds, RhoFrom(package))

SessionC == challenge(SessionR, pubkeys.group_public, message)

\* d_i + rho.e_i + c.lambda_i.s_i of signer i of the package
ShareOf(i, lambda_i) ==
    FAdd(FAdd(DLog(package.signing_commitments[i].hiding),
              FMul(RhoFrom(package), DLog(package.signing_commitments[i].binding))),
         FMul(FMul(SessionC, lambda_i), SigningShare(coefficients, i)))

\* with the Lagrange coefficient of the formula
HonestShare(i) == ShareOf(i, Lambda(i, PackageIds))

\* with the Lagrange coefficient the code derives
DerivedShare(i) == ShareOf(i, derive_lagrange_coeff(i, package).val)

NoIdentityCommitment ==
    \A i \in PackageIds :
        /\ package.signing_commitments[i].hiding # identity
        /\ package.signing_commitments[i].binding # identity

\* the package holds the non-identity commitments of a size-t set of key
\* holders
WellFormedPackage ==
    /\ Sealed
    /\ PackageIds \subseteq KeyIds
    /\ Cardinality(PackageIds) = min_signers
    /\ NoIdentityCommitment

\* a size-t set of key holders committed, and each of them contributed
\* exactly its share
HonestSession ==
    /\ WellFormedPackage
    /\ Len(shares) = min_signers
    /\ ShareIds = PackageIds
    /\ \/ \A k \in 1 .. Len(shares) :
             shares[k].z_share = HonestShare(shares[k].index)
       \/ \A k \in 1 .. Len(shares) :
             shares[k].z_share = DerivedShare(shares[k].index)

\* the plain Schnorr verification of (R, z) under Y
Verifies(sig) ==
    GMul(generator, sig.z)
        = GAdd(sig.R, GMul(pubkeys.group_public,
                           challenge(sig.R, pubkeys.group_public, message)))

(***************************************************************************)
(* C1: when a size-t set of key holders committed to non-identity          *)
(* commitments and each contributed z_i = d_i + rho.e_i + c.lambda_i.s_i,  *)
(* aggregate succeeds and its (R, z) satisfies z.B = R + c.Y.              *)
(***************************************************************************)
C1_Completeness ==
    (Aggregated /\ HonestSession)
        => (signature.kind = "Ok" /\ Verifies(signature.val))

C1_Witness ==
    /\ Aggregated
    /\ HonestSession
    /\ signature.kind = "Ok"
    /\ coefficients[2] # zero
    /\ pubkeys.group_public # identity

(***************************************************************************)
(* C2: with a consistent public-key package, every signature that          *)
(* aggregate returns satisfies z.B = R + c.Y, whatever list of shares it   *)
(* was given (a partial list, an empty list, a signer named twice).        *)
(* Stated for the packages of a size-t set of key holders.                 *)
(***************************************************************************)
C2_AggregateSound ==
    (Aggregated /\ WellFormedPackage /\ signature.kind = "Ok")
        => Verifies(signature.val)

(***************************************************************************)
(* C3: when the identifiers of the package's commitments and the           *)
(* identifiers of the supplied shares are different sets, aggregate        *)
(* returns the error MismatchedShares, and no signature.  Stated for the   *)
(* packages of a size-t set of key holders.                                *)
(***************************************************************************)
C3_MismatchedShares ==
    (Aggregated /\ WellFormedPackage /\ ShareIds # PackageIds)
        => signature = Err(MismatchedShares)

(***************************************************************************)
(* C4: when at least one supplied share z_i does not satisfy               *)
(* z_i.B = (D_i + rho.E_i) + c.lambda_i.Y_i, aggregate returns an error,   *)
(* wherever the share stands in the list.  Stated for the packages of a    *)
(* size-t set of key holders and lists of shares with nonzero identifiers. *)
(***************************************************************************)
\* share k names a signer of the package, and fails the verification
\* equation
InvalidShare(k) ==
    LET i == shares[k].index
    IN /\ i \in PackageIds
       /\ GMul(generator, shares[k].z_share)
             # GAdd(to_group_commitment_share(package.signing_commitments[i],
                                              RhoFrom(package)),
                    GMul(pubkeys.signer_pubkeys[i],
                         FMul(SessionC, Lambda(i, PackageIds))))

C4_InvalidShareRejected ==
    (/\ Aggregated
     /\ WellFormedPackage
     /\ 0 \notin ShareIds
     /\ \E k \in 1 .. Len(shares) : InvalidShare(k))
        => signature.kind = "Err"

(***************************************************************************)
(* C5: when a commitment of the package has D_i or E_i equal to the        *)
(* identity, aggregate returns IdentityCommitment, before it looks at any  *)
(* share: whatever the shares and the public-key package hold.             *)
(***************************************************************************)
C5_IdentityCommitment ==
    (Aggregated /\ ~NoIdentityCommitment)
        => /\ signature = Err(IdentityCommitment)
           /\ GroupCommitmentTryFrom(package) = Err(IdentityCommitment)

\* only E_i is the identity, and a share is supplied that names no key
\* holder
C5_Witness ==
    /\ Aggregated
    /\ \E i \in PackageIds :
          /\ package.signing_commitments[i].binding = identity
          /\ package.signing_commitments[i].hiding # identity
    /\ \E k \in 1 .. Len(shares) : shares[k].index \notin KeyIds
    /\ signature = Err(IdentityCommitment)

(***************************************************************************)
(* C6: when a supplied share names an identifier that has no verifying     *)
(* share in the public-key package, aggregate returns the error            *)
(* UnknownIdentifier as a value: it does not panic.  Stated for the        *)
(* packages of a size-t set of key holders and for the share the loop      *)
(* meets first, whose identifier is not zero.                              *)
(***************************************************************************)
C6_UnknownIdentifier ==
    (/\ Aggregated
     /\ WellFormedPackage
     /\ shares # <<>>
     /\ shares[1].index \notin KeyIds
     /\ shares[1].index # 0)
        => signature = Err(UnknownIdentifier)

(***************************************************************************)
(* C7: derive_lagrange_coeff returns the error InvalidIdentifier when the  *)
(* signer's identifier is 0 or an identifier of the package is 0; it       *)
(* never panics.                                                           *)
(***************************************************************************)
C7_InvalidIdentifier ==
    (/\ Sealed
     /\ coeff # None
     /\ (coeff.signer_id = 0 \/ 0 \in PackageIds))
        => coeff.result = Err(InvalidIdentifier)

(***************************************************************************)
(* C8: when the list of commitments given for the session names an         *)
(* identifier twice, derive_lagrange_coeff over that signer set fails      *)
(* with DuplicateIdentifier: no coefficient is produced.  Stated for       *)
(* nonzero identifiers.                                                    *)
(***************************************************************************)
HasDuplicate(list) ==
    \E j, k \in 1 .. Len(list) : j # k /\ list[j].index = list[k].index

C8_DuplicateIdentifier ==
    (/\ Sealed
     /\ coeff # None
     /\ HasDuplicate(commitments)
     /\ coeff.signer_id # 0
     /\ 0 \notin PackageIds)
        => coeff.result = Err(DuplicateIdentifier)

(***************************************************************************)
(* C9: the binding factor is H1(preimage), where the preimage is the       *)
(* commitments' serialize(i) || serialize(D_i) || serialize(E_i) in        *)
(* ascending identifier order, followed by the digest H5(M).  Stated for   *)
(* the packages that hold a commitment.                                    *)
(***************************************************************************)
\* the commitments of the package in ascending identifier order
CommitmentList ==
    LET asc == Ascending(PackageIds)
    IN [k \in 1 .. Len(asc) |-> package.signing_commitments[asc[k]]]

C9_RhoPreimage ==
    (Sealed /\ transcript # None /\ PackageIds # {})
        => /\ transcript.preimage
                = encode_group_commitments(CommitmentList) \o H5(message)
           /\ transcript.rho = H1(transcript.preimage)

(***************************************************************************)
(* C10: the package, its rho preimage, the binding factor and the group    *)
(* commitment do not depend on the order in which the commitments          *)
(* (distinct identifiers) are given to SigningPackage::new, nor on the     *)
(* map's iteration order; signing_commitments() is the given commitments   *)
(* in strictly ascending identifier order.                                 *)
(***************************************************************************)
\* every ordering of a list
Orderings(list) ==
    {[k \in 1 .. Len(list) |-> list[f[k]]] :
        f \in {g \in [1 .. Len(list) -> 1 .. Len(list)] :
                  \A a, b \in 1 .. Len(list) : a # b => g[a] # g[b]}}

StrictlyAscending(list) ==
    \A k \in 1 .. (Len(list) - 1) : list[k].index < list[k + 1].index

C10_OrderIndependent ==
    (Sealed /\ ~HasDuplicate(commitments))
        => LET mine == signing_commitments(package)
               preimage == rho_preimage(package)
               rho == RhoFrom(package)
               R == GroupCommitmentTryFrom(package)
           IN /\ StrictlyAscending(mine)
              /\ {mine[k] : k \in 1 .. Len(mine)}
                    = {commitments[k] : k \in 1 .. Len(commitments)}
              /\ transcript # None
                    => /\ transcript.preimage = preimage
                       /\ transcript.rho = rho
                       /\ transcript.group_commitment = R
              /\ \A other \in Orderings(commitments), seed \in 0 .. MaxSeed :
                    LET theirs == SigningPackageNew(other, message, seed)
                    IN /\ signing_commitments(theirs) = mine
                       /\ rho_preimage(theirs) = preimage
                       /\ RhoFrom(theirs) = rho
                       /\ GroupCommitmentTryFrom(theirs) = R

\* two commitments given in descending order, in a map that iterates in
\* descending order, and the transcript computed
C10_Witness ==
    /\ Sealed
    /\ Len(commitments) = 2
    /\ commitments[1].index > commitments[2].index
    /\ package.seed = 0
    /\ transcript # None
    /\ transcript.group_commitment.kind = "Ok"

(***************************************************************************)
(* C11: whenever the group commitment R, the sum of D_i + rho.E_i over     *)
(* the package, is the identity, aggregate fails with                      *)
(* InvalidGroupCommitment; it never returns a signature whose R is the     *)
(* identity, whatever the package (the empty one included) and the shares. *)
(***************************************************************************)
C11_InvalidGroupCommitment ==
    Aggregated =>
        /\ ~ (signature.kind = "Ok" /\ signature.val.R = identity)
        /\ (NoIdentityCommitment /\ SessionR = identity)
               => signature = Err(InvalidGroupCommitment)


(***************************************************************************)
(* C12: Group::deserialize never returns the identity: the encoding of     *)
(* the neutral point is rejected with InvalidIdentityElement, a buffer     *)
(* that encodes no point with MalformedElement, a different error, and     *)
(* deserialize(serialize(P)) = P for every P other than the identity.      *)
(***************************************************************************)
\* the buffers that encode a point
Encodings == {GroupSerialize(P) : P \in Element}

C12_DeserializeRejectsIdentity ==
    decoded # None =>
        /\ decoded.result.kind \in {"Ok", "Err"}
        /\ decoded.result.kind = "Ok" =>
               (decoded.result.val \in Element /\ decoded.result.val # identity)
        /\ decoded.buf = GroupSerialize(identity) =>
               decoded.result = Err("InvalidIdentityElement")
        /\ decoded.buf \notin Encodings =>
               decoded.result = Err("MalformedElement")
        /\ Err("InvalidIdentityElement") # Err("MalformedElement")
        /\ (decoded.from # None /\ decoded.from.val # identity) =>
               decoded.result = Ok(decoded.from.val)

\* a point other than the identity went through serialize and deserialize
C12_Witness ==
    /\ decoded # None
    /\ decoded.from # None
    /\ decoded.from.val # identity
    /\ decoded.buf = GroupSerialize(decoded.from.val)
    /\ decoded.result.kind = "Ok"

(***************************************************************************)
(* C13: over a signer set S of distinct nonzero identifiers, the           *)
(* coefficient derived for i in S is the product over the other j in S of  *)
(* j / (j - i), and the coefficients interpolate at 0: the sum over S of   *)
(* lambda_i.f(i) is f(0) for every polynomial f of degree below |S|; with  *)
(* |S| = t the weighted sum of the signing shares is the group secret.     *)
(***************************************************************************)
\* the polynomials of degree below n, by their coefficients
PolynomialsBelow(n) == [1 .. n -> Scalar]

\* the sum over i in S of lambda[i].f(i)
RECURSIVE WeightedSum(_, _, _)
WeightedSum(S, lambda, f) ==
    IF S = {} THEN zero
    ELSE LET i == CHOOSE x \in S : TRUE
         IN FAdd(FMul(lambda[i], evaluate_polynomial(f, i % Q)),
                 WeightedSum(S \ {i}, lambda, f))

C13_LagrangeInterpolates ==
    (coeff # None /\ 0 \notin PackageIds /\ coeff.signer_id \in PackageIds) =>
        LET S == PackageIds
            derived == [i \in S |-> derive_lagrange_coeff(i, package)]
            lambda == [i \in S |-> derived[i].val]
        IN /\ coeff.result = Ok(Lambda(coeff.signer_id, S))
           /\ \A i \in S : derived[i] = Ok(Lambda(i, S))
           /\ \A f \in PolynomialsBelow(Cardinality(S)) :
                  WeightedSum(S, lambda, f) = f[1]
           /\ Cardinality(S) = min_signers =>
                  WeightedSum(S, lambda, coefficients) = coefficients[1]

\* a coefficient other than zero and one was derived in a set of t signers
C13_Witness ==
    /\ coeff # None
    /\ 0 \notin PackageIds
    /\ coeff.signer_id \in PackageIds
    /\ Cardinality(PackageIds) = min_signers
    /\ coeff.result.kind = "Ok"
    /\ coeff.result.val \notin {zero, one}

(***************************************************************************)
(* C14: a package built by SigningPackage::new holds at most one           *)
(* commitment per identifier. Of several commitments of one identifier in  *)
(* the input the constructor keeps the latest and reports nothing: the     *)
(* package has as many commitments as the input has distinct identifiers,  *)
(* and rho, R and lambda_i are those of the kept commitments alone.        *)
(***************************************************************************)
\* the identifiers of the list that SigningPackage::new took
InputIds == {commitments[k].index : k \in 1 .. Len(commitments)}

\* the list without the entries that a later entry of the same identifier
\* follows
RECURSIVE KeepLatest(_)
KeepLatest(list) ==
    IF list = <<>> THEN <<>>
    ELSE IF \E j \in 2 .. Len(list) : list[j].index = Head(list).index
         THEN KeepLatest(Tail(list))
         ELSE <<Head(list)>> \o KeepLatest(Tail(list))

C14_OneCommitmentPerIdentifier ==
    Sealed =>
        LET held == signing_commitments(package)
            kept == KeepLatest(commitments)
            alone == SigningPackageNew(kept, message, package.seed)
        IN /\ DOMAIN package = {"signing_commitments", "message", "seed"}
           /\ \A k, j \in 1 .. Len(held) :
                  held[k].index = held[j].index => k = j
           /\ Len(held) = Cardinality(InputIds)
           /\ {held[k] : k \in 1 .. Len(held)} = {kept[k] : k \in 1 .. Len(kept)}
           /\ transcript # None =>
                  transcript = [preimage |-> rho_preimage(alone),
                                rho |-> RhoFrom(alone),
                                group_commitment |-> GroupCommitmentTryFrom(alone)]
           /\ coeff # None =>
                  coeff.result = derive_lagrange_coeff(coeff.signer_id, alone)

\* the input held two different commitments of one identifier, and the
\* group commitment of the package was computed
C14_Witness ==
    /\ Sealed
    /\ \E k, j \in 1 .. Len(commitments) :
          /\ k < j
          /\ commitments[k].index = commitments[j].index
          /\ commitments[k].hiding # commitments[j].hiding
    /\ transcript # None
    /\ transcript.group_commitment.kind = "Ok"

==============================================================================
